---- MODULE Spec2Model ----
(***************************************************************************)
(* Model of the go-arena bump allocator: Arena (arena.go), ArenaPool, and  *)
(* the allocAligned variant of the Arena with MakeSlice and Append.        *)
(* A chunk is a record [id, cap]: id stands for the address of the backing *)
(* array make([]byte, n) returned, cap for cap(chunk).  A pointer into a   *)
(* chunk is a pair (chunk id, byte offset).                                *)
(***************************************************************************)
EXTENDS Integers, Sequences, FiniteSets, TLC

\* ---------------------------------------------------------------- bounds
\* Largest number of chunks an arena may hold in the model.
MaxChunks == 4
\* Largest number of allocations recorded in one session.
MaxSession == 3
\* Largest workload length replayed by the repeat scenario.
MaxW == 3
\* Number of single-byte allocations performed by the smart-reset scenario.
MaxBytes == 100

\* Width of the machine word used for the two's complement of -offset.
WordBits == 8
Word == 2 ^ WordBits

\* Arena objects and clients of the pool scenario, and the largest number
\* of chunks an arena of the pool may hold.
MaxArenas == 2
MaxClients == 2
MaxPoolChunks == 2
ArenaIds == 1..MaxArenas
Clients == 1..MaxClients

\* Addresses the runtime may hand out for backing arrays.
ChunkIds == 1..(MaxChunks + MaxPoolChunks + MaxBytes + 1)

\* Constructor arguments tried by the model.
Sizes == {-1, 0, 1, 4}
Retains == {-1, 0, 2, 9}

\* (size, align) of the value types passed to New[T]; <<0, 1>> is struct{}.
Types == {<<0, 1>>, <<1, 1>>, <<2, 2>>, <<4, 4>>, <<8, 4>>}
\* Lengths of the strings passed to AllocString.
StrLens == {0, 1, 3}

VARIABLES
    cfg,      \* arguments of the constructor call: [size, maxRetained]
    arena,    \* the directly owned *Arena: NilArena before construction
    live,     \* ranges returned since the last Reset, in allocation order
    ret,      \* result of the last operation
    nalloc,   \* allocations performed since construction (scenario counter)
    phase,    \* repeat scenario: "warm", "first", "replay", "done"
    W,        \* repeat scenario: the recorded workload, a sequence of requests
    pos,      \* repeat scenario: requests of W replayed so far
    highWater, \* repeat scenario: chunk count at the end of the first run
    keptAll,  \* repeat scenario: the Reset between the runs kept every chunk
    pool,     \* the *ArenaPool: NilPool before construction
    arenas,   \* pool scenario: arena objects by identity
    idle,     \* pool scenario: arenas stored in the sync.Pool
    pc,       \* pool scenario: position of each client: "start",
              \* "get_reset" (inside Get), "got" (Get has returned), "work",
              \* "put_give" (inside Put)
    held,     \* pool scenario: arena referenced by each client's variable
    mem,      \* slice scenario: the element stored at each cell
              \* <<chunk id, byte offset>> written since the last Reset
    sl        \* slice scenario: the client's slice variable

vars == <<cfg, arena, live, ret, nalloc, phase, W, pos, highWater, keptAll,
          pool, arenas, idle, pc, held, mem, sl>>
sliceVars == <<mem, sl>>

\* ------------------------------------------------------------- Go values
NilArena == [kind |-> "nil"]
Panic == [kind |-> "panic"]
NilPtr == [kind |-> "nilptr"]

Min(S) == CHOOSE x \in S : \A y \in S : x <= y
Max2(x, y) == IF x > y THEN x ELSE y

RECURSIVE BitAnd(_, _)
BitAnd(x, y) ==
    IF x = 0 \/ y = 0 THEN 0
    ELSE (x % 2) * (y % 2) + 2 * BitAnd(x \div 2, y \div 2)

\* -a.offset as a machine word (two's complement).
Neg(x) == (Word - (x % Word)) % Word

RECURSIVE SumCap(_)
SumCap(s) == IF s = <<>> THEN 0 ELSE s[1].cap + SumCap(Tail(s))

ChunkIdsOf(a) ==
    IF a.kind = "arena" THEN {a.chunks[i].id : i \in 1..Len(a.chunks)} ELSE {}

\* make([]byte, n): a backing array at an address not in use (heap = the
\* addresses of the arrays still referenced).
make(heap, n) == [id |-> Min(ChunkIds \ heap), cap |-> n]

\* cap() of the backing array at address id.
CapOf(a, id) ==
    LET i == CHOOSE i \in 1..Len(a.chunks) : a.chunks[i].id = id
    IN a.chunks[i].cap

\* ------------------------------------------------------------- arena.go
NewArenaNoDefault(size, maxRetained, heap) ==
    IF size < 0 THEN Panic
    ELSE LET firstChunk == make(heap, size)
         IN [kind |-> "arena",
             chunks |-> <<firstChunk>>,
             chunkSize |-> size,
             chunkIndex |-> 0,
             offset |-> 0,
             curStart |-> firstChunk.id,
             curEnd |-> firstChunk.cap,
             maxRetain |-> IF maxRetained <= 0 THEN size ELSE maxRetained]

NewArena(size, maxRetained, heap) ==
    IF size <= 0 THEN Panic
    ELSE LET firstChunk == make(heap, size)
         IN [kind |-> "arena",
             chunks |-> <<firstChunk>>,
             chunkSize |-> size,
             chunkIndex |-> 0,
             offset |-> 0,
             curStart |-> firstChunk.id,
             curEnd |-> firstChunk.cap,
             maxRetain |-> IF maxRetained <= 0 THEN size * 10 ELSE maxRetained]

\* The loop of Reset: i + 1 for the first i (0-based) at which the running
\* sum of capacities exceeds maxRetain, len(chunks) when there is none.
keepIndexAll(chunks, maxRetain) == Len(chunks)
keepIndexBeforeCrossing(chunks, maxRetain) ==
    LET over == {i \in 1..Len(chunks) : SumCap(SubSeq(chunks, 1, i)) > maxRetain}
    IN IF over = {} THEN Len(chunks) ELSE Max2(1, Min(over) - 1)
keepIndex(chunks, maxRetain) ==
    LET over == {i \in 1..Len(chunks) : SumCap(SubSeq(chunks, 1, i)) > maxRetain}
    IN IF over = {} THEN Len(chunks) ELSE Min(over)

\* The first two assignments of Reset.
rewindKeepOffset(a) == [a EXCEPT !.chunkIndex = 0]
rewind(a) == [a EXCEPT !.chunkIndex = 0, !.offset = 0]

Reset(a, heap) ==
    LET b == rewind(a)
        firstChunk == make(heap, a.chunkSize)
        restart == [b EXCEPT !.chunks = <<firstChunk>>,
                             !.curStart = firstChunk.id,
                             !.curEnd = firstChunk.cap]
    IN IF Len(a.chunks) = 0 THEN restart
       ELSE IF a.chunks[1].cap > a.maxRetain THEN restart
       ELSE [b EXCEPT !.curStart = a.chunks[1].id,
                      !.curEnd = a.chunks[1].cap,
                      !.chunks = SubSeq(a.chunks, 1,
                                        keepIndex(a.chunks, a.maxRetain))]

ensureNoReuse(a, size, heap) ==
    IF size <= a.chunks[a.chunkIndex + 1].cap - a.offset THEN a
    ELSE LET newChunk == make(heap, Max2(a.chunkSize, size))
         IN [a EXCEPT !.chunks = Append(a.chunks, newChunk),
                      !.chunkIndex = a.chunkIndex + 1, !.offset = 0,
                      !.curStart = newChunk.id, !.curEnd = newChunk.cap]
ensureNoCapCheck(a, size, heap) ==
    IF size <= a.chunks[a.chunkIndex + 1].cap - a.offset THEN a
    ELSE IF a.chunkIndex + 1 < Len(a.chunks)
    THEN LET nextChunk == a.chunks[a.chunkIndex + 2]
         IN [a EXCEPT !.chunkIndex = a.chunkIndex + 1, !.offset = 0,
                      !.curStart = nextChunk.id, !.curEnd = nextChunk.cap]
    ELSE LET newChunk == make(heap, Max2(a.chunkSize, size))
         IN [a EXCEPT !.chunks = Append(a.chunks, newChunk),
                      !.chunkIndex = a.chunkIndex + 1, !.offset = 0,
                      !.curStart = newChunk.id, !.curEnd = newChunk.cap]
ensureNoMinSize(a, size, heap) ==
    IF size <= a.chunks[a.chunkIndex + 1].cap - a.offset THEN a
    ELSE IF a.chunkIndex + 1 < Len(a.chunks)
            /\ size <= a.chunks[a.chunkIndex + 2].cap
    THEN LET nextChunk == a.chunks[a.chunkIndex + 2]
         IN [a EXCEPT !.chunkIndex = a.chunkIndex + 1, !.offset = 0,
                      !.curStart = nextChunk.id, !.curEnd = nextChunk.cap]
    ELSE LET newChunk == make(heap, size)
         IN [a EXCEPT !.chunks = Append(a.chunks, newChunk),
                      !.chunkIndex = a.chunkIndex + 1, !.offset = 0,
                      !.curStart = newChunk.id, !.curEnd = newChunk.cap]
ensure(a, size, heap) ==
    IF size <= a.chunks[a.chunkIndex + 1].cap - a.offset THEN a
    ELSE IF a.chunkIndex + 1 < Len(a.chunks)
            /\ size <= a.chunks[a.chunkIndex + 2].cap
    THEN LET nextChunk == a.chunks[a.chunkIndex + 2]
         IN [a EXCEPT !.chunkIndex = a.chunkIndex + 1, !.offset = 0,
                      !.curStart = nextChunk.id, !.curEnd = nextChunk.cap]
    ELSE LET newChunk == make(heap, Max2(a.chunkSize, size))
         IN [a EXCEPT !.chunks = Append(a.chunks, newChunk),
                      !.chunkIndex = a.chunkIndex + 1, !.offset = 0,
                      !.curStart = newChunk.id, !.curEnd = newChunk.cap]

\* allocRaw and growAndAlloc.  The result is [a, ptr, grows]: the arena
\* after the call, the returned pointer, and the number of growAndAlloc
\* calls made on the way.
paddingNoNeg(offset, align) == BitAnd(offset, align - 1)
padding(offset, align) == BitAnd(Neg(offset), align - 1)

RECURSIVE allocRaw(_, _, _, _)
growAndAlloc(a, size, align, heap) ==
    LET r == allocRaw(ensure(a, size + align, heap), size, align, heap)
    IN [r EXCEPT !.grows = r.grows + 1]

allocRawNoZeroCheck(a, size, align0, heap) ==
    IF size < 0 THEN [a |-> a, ptr |-> NilPtr, grows |-> 0]
    ELSE LET align == IF align0 <= 0 THEN 1 ELSE align0
             pad == padding(a.offset, align)
             newOffset == a.offset + pad + size
         IN IF newOffset <= a.curEnd
            THEN [a |-> [a EXCEPT !.offset = newOffset],
                  ptr |-> [kind |-> "ptr", chunk |-> a.curStart,
                           start |-> a.offset + pad],
                  grows |-> 0]
            ELSE growAndAlloc(a, size, align, heap)
allocRaw(a, size, align0, heap) ==
    IF size <= 0 THEN [a |-> a, ptr |-> NilPtr, grows |-> 0]
    ELSE LET align == IF align0 <= 0 THEN 1 ELSE align0
             pad == padding(a.offset, align)
             newOffset == a.offset + pad + size
         IN IF newOffset <= a.curEnd
            THEN [a |-> [a EXCEPT !.offset = newOffset],
                  ptr |-> [kind |-> "ptr", chunk |-> a.curStart,
                           start |-> a.offset + pad],
                  grows |-> 0]
            ELSE growAndAlloc(a, size, align, heap)

\* ------------------------------------------------------ ArenaPool (pool.go)
NilPool == [kind |-> "nil"]

NewArenaPool(chunkSize, maxRetained) ==
    IF chunkSize <= 0 THEN Panic
    ELSE [kind |-> "pool",
          chunkSize |-> chunkSize,
          maxRetained |-> IF maxRetained <= 0 THEN chunkSize * 10
                          ELSE maxRetained]

\* p.pool.Get() taking the stored arena x, and p.pool.Put(a).
poolGetKeep(stored, x) == stored
poolGet(stored, x) == stored \ {x}
poolPut(stored, a) == stored \cup {a}

\* p.pool.New
poolNew(p, heap) == NewArena(p.chunkSize, p.maxRetained, heap)

\* allocBytes
allocBytes(a, size, heap) == allocRaw(a, size, 1, heap)
\* New[T] for a type of the given (size, align).
New(a, T, heap) ==
    IF T[1] = 0 THEN [a |-> a, ptr |-> [kind |-> "zero"], grows |-> 0]
    ELSE allocRaw(a, T[1], T[2], heap)

\* AllocString for a string of the given length.
AllocString(a, length, heap) ==
    IF length = 0 THEN [a |-> a, ptr |-> [kind |-> "empty"], grows |-> 0]
    ELSE allocRaw(a, length, 1, heap)

\* ------------------------------------------------- one arena, one owner
\* The byte range [lo, hi) of chunk `chunk` behind a returned pointer.
Range(ptr, size) == [chunk |-> ptr.chunk, lo |-> ptr.start, hi |-> ptr.start + size]

Heap == ChunkIdsOf(arena) \cup {live[i].chunk : i \in 1..Len(live)}

InitCommon ==
    /\ cfg \in [size : Sizes, maxRetained : Retains]
    /\ arena = NilArena
    /\ live = <<>>
    /\ ret = [op |-> "init"]
    /\ nalloc = 0
    /\ phase = "warm"
    /\ W = <<>>
    /\ pos = 0
    /\ highWater = 0
    /\ keptAll = FALSE
    /\ pool = NilPool
    /\ arenas = [i \in ArenaIds |-> NilArena]
    /\ idle = {}
    /\ pc = [c \in Clients |-> "start"]
    /\ held = [c \in Clients |-> 0]
    /\ mem = [c \in {} |-> 0]
    /\ sl = [kind |-> "none"]

Init == InitCommon

scenarioVars == <<nalloc, phase, W, pos, highWater, keptAll>>
poolVars == <<pool, arenas, idle, pc, held>>

\* a := NewArena(cfg.size, cfg.maxRetained); a panic leaves no object.
Construct ==
    /\ ret.op = "init"
    /\ pool.kind # "nil"
    /\ LET r == NewArena(cfg.size, cfg.maxRetained, {})
       IN /\ arena' = IF r = Panic THEN NilArena ELSE r
          /\ ret' = [op |-> "NewArena", fault |-> (r = Panic)]
    /\ UNCHANGED <<cfg, sliceVars, live, scenarioVars, poolVars>>

\* The effect of one allocating call whose result is r.
Serve(op, size, align, r) ==
    /\ Len(r.a.chunks) <= MaxChunks
    /\ r.ptr.kind = "ptr" => Len(live) < MaxSession
    /\ arena' = r.a
    /\ live' = IF r.ptr.kind = "ptr" THEN Append(live, Range(r.ptr, size))
               ELSE live
    /\ ret' = [op |-> op, size |-> size, align |-> align, ptr |-> r.ptr,
               grows |-> r.grows, afterReset |-> (ret.op = "Reset"),
               before |-> arena]

DoNew(T) ==
    /\ arena.kind = "arena"
    /\ Serve("New", T[1], T[2], New(arena, T, Heap))
    /\ UNCHANGED <<cfg, sliceVars, scenarioVars, poolVars>>

DoAllocString(n) ==
    /\ arena.kind = "arena"
    /\ Serve("AllocString", n, 1, AllocString(arena, n, Heap))
    /\ UNCHANGED <<cfg, sliceVars, scenarioVars, poolVars>>

\* Sizes passed to allocBytes.
ByteLens == {0, 1}

\* _ = a.allocBytes(n)
DoAllocBytes(n) ==
    /\ arena.kind = "arena"
    /\ Serve("allocBytes", n, 1, allocBytes(arena, n, Heap))
    /\ UNCHANGED <<cfg, sliceVars, scenarioVars, poolVars>>
DoReset ==
    /\ arena.kind = "arena"
    /\ arena' = Reset(arena, Heap)
    /\ live' = <<>>
    /\ ret' = [op |-> "Reset", before |-> arena]
    /\ UNCHANGED <<cfg, sliceVars, scenarioVars, poolVars>>

\* p := NewArenaPool(cfg.size, cfg.maxRetained), at program start.
ConstructPool ==
    /\ pool.kind = "nil"
    /\ pool' = NewArenaPool(cfg.size, cfg.maxRetained)
    /\ UNCHANGED <<cfg, sliceVars, arena, live, ret, scenarioVars, arenas, idle, pc, held>>

Next ==
    \/ Construct
    \/ ConstructPool
    \/ \E T \in Types : DoNew(T)
    \/ \E n \in StrLens : DoAllocString(n)
    \/ \E n \in ByteLens : DoAllocBytes(n)
    \/ DoReset

Spec == Init /\ [][Next]_vars

\* ------------------------------------------- TestSmartReset (scenario A)
\* arena := NewArena(1, 2)
InitSmartReset ==
    /\ InitCommon
    /\ cfg = [size |-> 1, maxRetained |-> 2]

SmartConstruct ==
    /\ ret.op = "init"
    /\ arena' = NewArena(cfg.size, cfg.maxRetained, {})
    /\ ret' = [op |-> "NewArena", fault |-> FALSE]
    /\ UNCHANGED <<cfg, sliceVars, live, scenarioVars, poolVars>>

\* for i := 0; i < 100; i++ { _ = New[byte](arena) }
SmartLoop ==
    /\ arena.kind = "arena"
    /\ ret.op # "Reset"
    /\ nalloc < MaxBytes
    /\ LET r == New(arena, <<1, 1>>, ChunkIdsOf(arena))
       IN /\ arena' = r.a
          /\ ret' = [op |-> "New", size |-> 1, align |-> 1, ptr |-> r.ptr,
                     grows |-> r.grows, afterReset |-> FALSE,
                     before |-> arena]
    /\ nalloc' = nalloc + 1
    /\ UNCHANGED <<cfg, sliceVars, live, phase, W, pos, highWater, keptAll, poolVars>>

\* arena.Reset() after the loop
SmartReset ==
    /\ nalloc = MaxBytes
    /\ ret.op = "New"
    /\ arena' = Reset(arena, ChunkIdsOf(arena))
    /\ ret' = [op |-> "Reset", before |-> arena]
    /\ UNCHANGED <<cfg, sliceVars, live, scenarioVars, poolVars>>

\* _ = New[byte](arena) after the Reset
SmartLast ==
    /\ nalloc = MaxBytes
    /\ ret.op = "Reset"
    /\ LET r == New(arena, <<1, 1>>, ChunkIdsOf(arena))
       IN /\ arena' = r.a
          /\ ret' = [op |-> "New", size |-> 1, align |-> 1, ptr |-> r.ptr,
                     grows |-> r.grows, afterReset |-> TRUE,
                     before |-> arena]
    /\ nalloc' = nalloc + 1
    /\ UNCHANGED <<cfg, sliceVars, live, phase, W, pos, highWater, keptAll, poolVars>>

NextSmartReset == SmartConstruct \/ SmartLoop \/ SmartReset \/ SmartLast

SpecSmartReset == InitSmartReset /\ [][NextSmartReset]_vars

\* ------------------------------------- the same workload run twice (C3)
\* Requests of the recorded workload: New[T] for the non-empty types.
Requests == {T \in Types : T[1] > 0}

\* Earlier sessions: any allocations and Resets.
WarmAlloc(T) ==
    /\ phase = "warm"
    /\ arena.kind = "arena"
    /\ Serve("New", T[1], T[2], New(arena, T, Heap))
    /\ UNCHANGED <<cfg, sliceVars, scenarioVars, poolVars>>

WarmReset ==
    /\ phase = "warm"
    /\ DoReset

\* The first run starts at a session boundary.
FirstAlloc(T) ==
    /\ phase \in {"warm", "first"}
    /\ phase = "warm" => ret.op = "Reset" \/ (ret.op = "NewArena" /\ ~ret.fault)
    /\ Len(W) < MaxW
    /\ Serve("New", T[1], T[2], New(arena, T, Heap))
    /\ phase' = "first"
    /\ W' = Append(W, T)
    /\ UNCHANGED <<cfg, sliceVars, nalloc, pos, highWater, keptAll, poolVars>>

\* The Reset between the two runs.
MidReset ==
    /\ phase = "first"
    /\ arena' = Reset(arena, Heap)
    /\ live' = <<>>
    /\ ret' = [op |-> "Reset", before |-> arena]
    /\ highWater' = Len(arena.chunks)
    /\ keptAll' = (/\ arena'.chunks = arena.chunks
                   /\ SumCap(arena.chunks) <= arena.maxRetain)
    /\ phase' = "replay"
    /\ UNCHANGED <<cfg, sliceVars, nalloc, W, pos, poolVars>>

\* The second run performs W again, request by request.
ReplayAlloc ==
    /\ phase = "replay"
    /\ pos < Len(W)
    /\ Serve("New", W[pos + 1][1], W[pos + 1][2], New(arena, W[pos + 1], Heap))
    /\ pos' = pos + 1
    /\ phase' = IF pos + 1 = Len(W) THEN "done" ELSE "replay"
    /\ UNCHANGED <<cfg, sliceVars, nalloc, W, highWater, keptAll, poolVars>>

InitRepeat ==
    /\ InitCommon
    /\ cfg.size > 0

NextRepeat ==
    \/ ConstructPool
    \/ Construct
    \/ \E T \in Requests : WarmAlloc(T)
    \/ WarmReset
    \/ \E T \in Requests : FirstAlloc(T)
    \/ MidReset
    \/ ReplayAlloc

SpecRepeat == InitRepeat /\ [][NextRepeat]_vars

\* ------------------- a workload run twice on a freshly constructed arena
\* The first run starts right after NewArena: no earlier session exists.
NextFresh ==
    \/ ConstructPool
    \/ Construct
    \/ \E T \in Requests : FirstAlloc(T)
    \/ MidReset
    \/ ReplayAlloc

SpecFresh == InitRepeat /\ [][NextFresh]_vars
\* ------------------------------- the allocAligned variant of the package
\* The Arena that MakeSlice and Append are written against: the same chunk
\* list and cursor, without the cached curStart / curEnd.
MaxInt == 2 ^ (WordBits - 1) - 1

\* x as a Go int: wrapped into -2^(w-1) .. 2^(w-1) - 1.
WrapInt(x) == LET y == x % Word IN IF y > MaxInt THEN y - Word ELSE y

\* Go's x / y for y > 0: the quotient truncated towards zero.
TruncDiv(x, y) == IF x >= 0 THEN x \div y ELSE -((-x) \div y)

ChunkIdsA(a) == {a.chunks[i].id : i \in 1..Len(a.chunks)}

NewArenaAligned(size, maxRetained, heap) ==
    IF size <= 0 THEN Panic
    ELSE [kind |-> "aligned",
          chunks |-> <<make(heap, size)>>,
          chunkSize |-> size,
          chunkIndex |-> 0,
          offset |-> 0,
          maxRetain |-> IF maxRetained <= 0 THEN size * 10 ELSE maxRetained]

ResetAligned(a, heap) ==
    LET b == rewind(a)
        restart == [b EXCEPT !.chunks = <<make(heap, a.chunkSize)>>]
    IN IF Len(a.chunks) = 0 THEN restart
       ELSE IF a.chunks[1].cap > a.maxRetain THEN restart
       ELSE [b EXCEPT !.chunks = SubSeq(a.chunks, 1,
                                        keepIndex(a.chunks, a.maxRetain))]

ensureAligned(a, size, heap) ==
    IF size <= a.chunks[a.chunkIndex + 1].cap - a.offset THEN a
    ELSE IF a.chunkIndex + 1 < Len(a.chunks)
            /\ size <= a.chunks[a.chunkIndex + 2].cap
    THEN [a EXCEPT !.chunkIndex = a.chunkIndex + 1, !.offset = 0]
    ELSE LET newChunk == make(heap \cup ChunkIdsA(a), Max2(a.chunkSize, size))
         IN [a EXCEPT !.chunks = Append(a.chunks, newChunk),
                      !.chunkIndex = a.chunkIndex + 1, !.offset = 0]

\* The result is [a, ptr, size, align]: the arena after the call and the
\* returned buffer chunk[start : start + size]; ptr.kind = "oob" when the
\* slice expression chunk[start:a.offset] panics (a.offset > cap(chunk)).
allocAligned(a, size, align0, heap) ==
    IF size <= 0 THEN [a |-> a, ptr |-> NilPtr, size |-> size, align |-> align0]
    ELSE LET align == IF align0 <= 0 THEN 1 ELSE align0
             padding0 == (align - (a.offset % align)) % align
             over == a.offset + padding0 + size > a.chunks[a.chunkIndex + 1].cap
             a1 == IF over THEN ensureAligned(a, size, heap) ELSE a
             pad == IF over THEN 0 ELSE padding0
             a2 == [a1 EXCEPT !.offset = a1.offset + pad]
             a3 == ensureAligned(a2, size, heap)
             chunk == a3.chunks[a3.chunkIndex + 1]
             start == a3.offset
             a4 == [a3 EXCEPT !.offset = start + size]
         IN [a |-> a4,
             ptr |-> IF a4.offset > chunk.cap THEN [kind |-> "oob"]
                     ELSE [kind |-> "ptr", chunk |-> chunk.id, start |-> start],
             size |-> size, align |-> align]

NewAligned(a, T, heap) ==
    IF T[1] = 0
    THEN [a |-> a, ptr |-> [kind |-> "zero"], size |-> 0, align |-> T[2]]
    ELSE allocAligned(a, T[1], T[2], heap)

AllocStringAligned(a, length, heap) ==
    IF length = 0
    THEN [a |-> a, ptr |-> [kind |-> "empty"], size |-> 0, align |-> 1]
    ELSE allocAligned(a, length, 1, heap)

\* ---------------------------------------------------- MakeSlice and Append
\* A []T value: kind "nil" (nil slice), "slice" (elements at byte offsets
\* start, start + Sizeof(T), ... of the chunk at address chunk) or "gc"
\* (make([]T, length, capacity) for a zero-sized T, outside the arena).
SliceOf(kind, T, chunk, start, length, capacity) ==
    [kind |-> kind, T |-> T, chunk |-> chunk, start |-> start,
     len |-> length, cap |-> capacity]

NilSlice(T) == SliceOf("nil", T, 0, 0, 0, 0)

\* The element stored at byte offset o of chunk c.  A cell not written
\* since the last Reset holds what the chunk held then: zero in a new
\* chunk, the bytes of an earlier session in a reused one.
Stale(c, o) == <<"stale", c, o>>
Read(m, c, o) == IF <<c, o>> \in DOMAIN m THEN m[<<c, o>>] ELSE Stale(c, o)

\* s[0], ..., s[len(s)-1]; s[:cap(s)] gives the whole backing storage.
Elements(m, s) ==
    [i \in 1..s.len |-> Read(m, s.chunk, s.start + (i - 1) * s.T[1])]

\* Memory after the assignments s[from + i] = vals[i] for every i.
Store(m, s, from, vals) ==
    LET cells == {<<s.chunk, s.start + (from + i - 1) * s.T[1]>> :
                      i \in 1..Len(vals)}
    IN [c \in DOMAIN m \cup cells |->
           IF c \in cells
           THEN vals[(c[2] - s.start) \div s.T[1] - from + 1]
           ELSE m[c]]

\* The result is [a, res, panic, ptr, size, align]: the arena after the
\* call, the returned slice, "arg" for a panic raised by MakeSlice itself
\* and "oob" for a run-time bounds panic, and the allocAligned call made.
MakeSliceResult(a, res, panic, r) ==
    [a |-> a, res |-> res, panic |-> panic,
     ptr |-> r.ptr, size |-> r.size, align |-> r.align]

NoAlloc == [ptr |-> NilPtr, size |-> 0, align |-> 1]

MakeSliceNoOverflowCheck(a, length, capacity, T, heap) ==
    IF length < 0 \/ capacity < 0 THEN MakeSliceResult(a, Panic, "arg", NoAlloc)
    ELSE IF capacity < length THEN MakeSliceResult(a, Panic, "arg", NoAlloc)
    ELSE IF capacity = 0 THEN MakeSliceResult(a, NilSlice(T), "none", NoAlloc)
    ELSE IF T[1] = 0
    THEN MakeSliceResult(a, SliceOf("gc", T, 0, 0, length, capacity), "none",
                         NoAlloc)
    ELSE LET total == WrapInt(T[1] * capacity)
             r == allocAligned(a, total, T[2], heap)
         IN IF r.ptr.kind # "ptr" THEN MakeSliceResult(r.a, Panic, "oob", r)
            ELSE MakeSliceResult(r.a,
                     SliceOf("slice", T, r.ptr.chunk, r.ptr.start, length,
                             capacity),
                     "none", r)

MakeSlice(a, length, capacity, T, heap) ==
    IF length < 0 \/ capacity < 0 THEN MakeSliceResult(a, Panic, "arg", NoAlloc)
    ELSE IF capacity < length THEN MakeSliceResult(a, Panic, "arg", NoAlloc)
    ELSE IF capacity = 0 THEN MakeSliceResult(a, NilSlice(T), "none", NoAlloc)
    ELSE IF T[1] = 0
    THEN MakeSliceResult(a, SliceOf("gc", T, 0, 0, length, capacity), "none",
                         NoAlloc)
    ELSE LET total == WrapInt(T[1] * capacity)
         IN IF TruncDiv(total, T[1]) # capacity
            THEN MakeSliceResult(a, Panic, "arg", NoAlloc)
            ELSE LET r == allocAligned(a, total, T[2], heap)
                 IN IF r.ptr.kind # "ptr"
                    THEN MakeSliceResult(r.a, Panic, "oob", r)
                    ELSE MakeSliceResult(r.a,
                             SliceOf("slice", T, r.ptr.chunk, r.ptr.start,
                                     length, capacity),
                             "none", r)

\* Append[T]; the result also carries the memory after the call.
AppendResult(r, m, res) ==
    [a |-> r.a, res |-> res, panic |-> r.panic, ptr |-> r.ptr,
     size |-> r.size, align |-> r.align, mem |-> m]

\* The tail of Append once newSlice := MakeSlice(...) has produced r:
\* copy(newSlice, slice); newSlice = append(newSlice, items...).
copyAndAppend(r, m, slice, items) ==
    IF r.panic # "none" THEN AppendResult(r, m, Panic)
    ELSE AppendResult(r,
             Store(Store(m, r.res, 0, Elements(m, slice)),
                   r.res, slice.len, items),
             [r.res EXCEPT !.len = slice.len + Len(items)])

\* Append[T].  In the growing branch r stands for the value returned by
\* the one call newSlice := MakeSlice[T](a, len(slice), newCap).
AppendSlice(a, m, slice, items, heap) ==
    LET same == MakeSliceResult(a, slice, "none", NoAlloc)
        needed == slice.len + Len(items)
        doubled == WrapInt(slice.cap * 2)
        newCap == IF doubled < needed THEN needed ELSE doubled
    IN IF Len(items) = 0 THEN AppendResult(same, m, slice)
       ELSE IF needed <= slice.cap
       THEN AppendResult(same, Store(m, slice, slice.len, items),
                         [slice EXCEPT !.len = needed])
       ELSE CHOOSE out \in
                {copyAndAppend(r, m, slice, items) :
                     r \in {MakeSlice(a, slice.len, newCap, slice.T, heap)}} :
                TRUE

\* ------------------------------- one allocAligned arena and one []T variable
\* Element types of the slices: (Sizeof, Alignof).
ElemTypes == {<<0, 1>>, <<1, 1>>, <<2, 2>>}
SliceLens == {-1, 0, 1}
SliceCaps == {-1, 0, 1, 2}
\* A capacity whose byte count overflows int for the elements of 2 bytes
\* (to a negative total) and of 4 bytes (to a small positive total).
BigCap == MaxInt \div 2 + 2
\* Arguments (T, length, capacity) of the MakeSlice calls.
MakeSliceArgs ==
    {<<T, l, c>> : T \in ElemTypes, l \in SliceLens \ {-1}, c \in SliceCaps \ {-1}}
    \cup {<<<<1, 1>>, l, c>> : l \in SliceLens, c \in SliceCaps}
    \cup {<<T, 0, BigCap>> : T \in {<<2, 2>>, <<4, 4>>}}
\* (size, align) of the value types passed to New[T] in this scenario.
AlignedTypes == {<<0, 1>>, <<1, 1>>, <<2, 2>>}
\* Lengths of the strings passed to AllocString in this scenario.
AlignedStrLens == {0, 3}
\* Chunk sizes passed to NewArena in this scenario.
AlignedSizes == {0, 1}
\* Variadic arguments of the Append calls.
ItemLists == {<<>>, <<7>>, <<8, 9>>}
\* Longest slice built by the Append calls.
MaxLen == 3

HeapAligned ==
    ChunkIdsA(arena) \cup (IF sl.kind = "slice" THEN {sl.chunk} ELSE {})

\* A run-time panic has unwound the caller: the program is over.
Crashed == ret.op \notin {"init", "NewArena", "Reset"} /\ ret.panic = "oob"

ConstructAligned ==
    /\ ret.op = "init"
    /\ pool.kind # "nil"
    /\ LET r == NewArenaAligned(cfg.size, cfg.maxRetained, {})
       IN /\ arena' = IF r = Panic THEN NilArena ELSE r
          /\ ret' = [op |-> "NewArena", fault |-> (r = Panic)]
    /\ UNCHANGED <<cfg, sliceVars, live, scenarioVars, poolVars>>

\* The effect on the arena of a call whose allocAligned result is r.
ServeAligned(r) ==
    /\ Len(r.a.chunks) <= MaxChunks \/ r.ptr.kind = "oob"
    /\ arena' = r.a
    /\ live' = live

AlignedNew(T) ==
    /\ arena.kind = "aligned"
    /\ ~Crashed
    /\ LET r == NewAligned(arena, T, HeapAligned)
       IN /\ ServeAligned(r)
          /\ ret' = [op |-> "New", size |-> T[1], align |-> r.align,
                     ptr |-> r.ptr, same |-> (r.a = arena),
                     panic |-> IF r.ptr.kind = "oob" THEN "oob" ELSE "none"]
    /\ UNCHANGED <<cfg, sliceVars, scenarioVars, poolVars>>

AlignedAllocString(n) ==
    /\ arena.kind = "aligned"
    /\ ~Crashed
    /\ LET r == AllocStringAligned(arena, n, HeapAligned)
       IN /\ ServeAligned(r)
          /\ ret' = [op |-> "AllocString", size |-> n, align |-> 1,
                     ptr |-> r.ptr, same |-> (r.a = arena),
                     panic |-> IF r.ptr.kind = "oob" THEN "oob" ELSE "none"]
    /\ UNCHANGED <<cfg, sliceVars, scenarioVars, poolVars>>

\* a.Reset() ends the session: the client drops its slice, and what the
\* chunks hold from now on is the stale content of the next session.
AlignedReset ==
    /\ arena.kind = "aligned"
    /\ ~Crashed
    /\ arena' = ResetAligned(arena, HeapAligned)
    /\ ret' = [op |-> "Reset"]
    /\ live' = <<>>
    /\ sl' = [kind |-> "none"]
    /\ mem' = [c \in {} |-> 0]
    /\ UNCHANGED <<cfg, scenarioVars, poolVars>>

\* _ = MakeSlice[T](a, length, capacity): the result is looked at and dropped.
CallMakeSlice(T, length, capacity) ==
    /\ arena.kind = "aligned"
    /\ ~Crashed
    /\ LET r == MakeSlice(arena, length, capacity, T, HeapAligned)
       IN /\ ServeAligned(r)
          /\ ret' = [op |-> "MakeSlice", T |-> T, length |-> length,
                     capacity |-> capacity, res |-> r.res, panic |-> r.panic,
                     size |-> r.size, align |-> r.align, ptr |-> r.ptr,
                     same |-> (r.a = arena)]
    /\ UNCHANGED <<cfg, sliceVars, scenarioVars, poolVars>>

\* sl := MakeSlice[T](a, length, capacity), once in a session.
DoMakeSlice(T, length, capacity) ==
    /\ arena.kind = "aligned"
    /\ ~Crashed
    /\ sl.kind = "none"
    /\ LET r == MakeSlice(arena, length, capacity, T, HeapAligned)
       IN /\ ServeAligned(r)
          /\ sl' = IF r.panic = "none" THEN r.res ELSE sl
          /\ ret' = [op |-> "MakeSlice", T |-> T, length |-> length,
                     capacity |-> capacity, res |-> r.res, panic |-> r.panic,
                     size |-> r.size, align |-> r.align, ptr |-> r.ptr,
                     same |-> (r.a = arena)]
    /\ UNCHANGED <<cfg, mem, scenarioVars, poolVars>>

\* sl = Append(a, sl, items...)
DoAppend(items) ==
    /\ arena.kind = "aligned"
    /\ ~Crashed
    /\ sl.kind \in {"nil", "slice"}
    /\ sl.T[1] > 0
    /\ sl.len + Len(items) <= MaxLen
    /\ LET r == AppendSlice(arena, mem, sl, items, HeapAligned)
       IN /\ ServeAligned(r)
          /\ sl' = IF r.panic = "none" THEN r.res ELSE sl
          /\ mem' = r.mem
          /\ ret' = [op |-> "Append", slice |-> sl, items |-> items,
                     res |-> r.res, panic |-> r.panic,
                     same |-> (r.a = arena),
                     backing |-> Elements(mem, [sl EXCEPT !.len = sl.cap])]
    /\ UNCHANGED <<cfg, scenarioVars, poolVars>>

NextAligned ==
    \/ ConstructPool
    \/ ConstructAligned
    \/ \E T \in AlignedTypes : AlignedNew(T)
    \/ \E n \in AlignedStrLens : AlignedAllocString(n)
    \/ AlignedReset
    \/ \E x \in MakeSliceArgs : CallMakeSlice(x[1], x[2], x[3])

InitAligned ==
    /\ InitCommon
    /\ cfg.size \in AlignedSizes
    /\ cfg.maxRetained \in {0, 2}

SpecAligned == InitAligned /\ [][NextAligned]_vars

\* The example program: slices built by MakeSlice and grown by Append,
\* session after session.
AppendMakeArgs ==
    {x \in {<<1, 1>>, <<4, 4>>} \X {0, 1} \X {0, 1, 2} : x[2] <= x[3]}

NextAppend ==
    \/ ConstructPool
    \/ ConstructAligned
    \/ AlignedReset
    \/ \E x \in AppendMakeArgs : DoMakeSlice(x[1], x[2], x[3])
    \/ \E items \in ItemLists : DoAppend(items)

InitAppend ==
    /\ InitCommon
    /\ cfg.size \in {1, 4}
    /\ cfg.maxRetained \in {0, 2}

SpecAppend == InitAppend /\ [][NextAppend]_vars
\* ------------------------------------------- either variant of the package
\* One arena of one of the two variants, chosen at construction.
NextBoth == Next \/ NextAligned

SpecBoth == InitAligned /\ [][NextBoth]_vars
\* ------------------------------------------------ ArenaPool and clients
\* Every client runs: mem := pool.Get(); allocations; pool.Put(mem), and may
\* call pool.Put(nil).  0 stands for the nil *Arena.
\* Backing arrays are never shared between arenas, so an address is named
\* relative to the arena that owns it.
PoolHeap(x) == ChunkIdsOf(arenas[x])

\* (size, align) of the values the clients allocate.
PoolTypes == {<<1, 1>>}

InitPool ==
    /\ InitCommon
    /\ cfg.size \in {0, 1, 4}
    /\ cfg.maxRetained = 2

\* Get, first statement: a := p.pool.Get().(*Arena).  sync.Pool hands out
\* a stored arena, or the result of New when it finds none (which a
\* concurrent Get may cause even while arenas are stored).
GetTake(c) ==
    /\ pool.kind = "pool"
    /\ pc[c] = "start"
    /\ \/ \E x \in idle :
             /\ idle' = poolGet(idle, x)
             /\ held' = [held EXCEPT ![c] = x]
             /\ UNCHANGED arenas
       \/ \E x \in ArenaIds :
             /\ arenas[x].kind = "nil"
             /\ x = Min({y \in ArenaIds : arenas[y].kind = "nil"})
             /\ arenas' = [arenas EXCEPT ![x] = poolNew(pool, PoolHeap(x))]
             /\ held' = [held EXCEPT ![c] = x]
             /\ UNCHANGED idle
    /\ pc' = [pc EXCEPT ![c] = "get_reset"]
    /\ ret' = [op |-> "pool"]
    /\ UNCHANGED <<cfg, sliceVars, arena, live, scenarioVars, pool>>

\* Get, second and third statement: a.Reset(); return a.
GetReset(c) ==
    /\ pc[c] = "get_reset"
    /\ arenas' = [arenas EXCEPT ![held[c]] = Reset(arenas[held[c]], PoolHeap(held[c]))]
    /\ ret' = [op |-> "pool"]
    /\ pc' = [pc EXCEPT ![c] = "got"]
    /\ UNCHANGED <<cfg, sliceVars, arena, live, scenarioVars, pool, idle, held>>

\* The holder allocates in its arena.
Work(c, T) ==
    /\ pc[c] \in {"got", "work"}
    /\ LET r == New(arenas[held[c]], T, PoolHeap(held[c]))
       IN /\ Len(r.a.chunks) <= MaxPoolChunks
          /\ arenas' = [arenas EXCEPT ![held[c]] = r.a]
    /\ ret' = [op |-> "pool"]
    /\ pc' = [pc EXCEPT ![c] = "work"]
    /\ UNCHANGED <<cfg, sliceVars, arena, live, scenarioVars, pool, idle, held>>

\* Put(a) with the call of a.Reset() left out.
PutNoReset(c, a) ==
    /\ pool.kind = "pool"
    /\ \/ pc[c] \in {"got", "work"} /\ a = held[c]
       \/ pc[c] \in {"start", "got", "work"} /\ a = 0
    /\ UNCHANGED <<idle, held, arenas>>
    /\ IF a = 0
       THEN /\ UNCHANGED pc
            /\ ret' = [op |-> "Put(nil)", same |-> TRUE]
       ELSE /\ ret' = [op |-> "pool"]
            /\ pc' = [pc EXCEPT ![c] = "put_give"]
    /\ UNCHANGED <<cfg, sliceVars, arena, live, scenarioVars, pool>>

\* Put(a), up to a.Reset(): a is the client's arena, or nil.
PutReset(c, a) ==
    /\ pool.kind = "pool"
    /\ \/ pc[c] \in {"got", "work"} /\ a = held[c]
       \/ pc[c] \in {"start", "got", "work"} /\ a = 0
    /\ UNCHANGED <<idle, held>>
    /\ IF a = 0
       THEN /\ UNCHANGED <<arenas, pc>>
            /\ ret' = [op |-> "Put(nil)",
                       same |-> (idle' = idle /\ arenas' = arenas)]
       ELSE /\ arenas' = [arenas EXCEPT ![a] = Reset(arenas[a], PoolHeap(a))]
            /\ ret' = [op |-> "pool"]
            /\ pc' = [pc EXCEPT ![c] = "put_give"]
    /\ UNCHANGED <<cfg, sliceVars, arena, live, scenarioVars, pool>>

\* Put(a), last statement: p.pool.Put(a).  The caller gives up the arena.
PutGive(c) ==
    /\ pc[c] = "put_give"
    /\ idle' = poolPut(idle, held[c])
    /\ held' = [held EXCEPT ![c] = 0]
    /\ ret' = [op |-> "pool"]
    /\ pc' = [pc EXCEPT ![c] = "start"]
    /\ UNCHANGED <<cfg, sliceVars, arena, live, scenarioVars, pool, arenas>>

\* The runtime may drop a stored arena at a garbage collection.
PoolDrop(x) ==
    /\ x \in idle
    /\ idle' = idle \ {x}
    /\ arenas' = [arenas EXCEPT ![x] = NilArena]
    /\ ret' = [op |-> "pool"]
    /\ UNCHANGED <<cfg, sliceVars, arena, live, scenarioVars, pool, pc, held>>

NextPool ==
    \/ ConstructPool
    \/ \E c \in Clients : GetTake(c)
    \/ \E c \in Clients : GetReset(c)
    \/ \E c \in Clients, T \in PoolTypes : Work(c, T)
    \/ \E c \in Clients, a \in {0} \cup ArenaIds : PutReset(c, a)
    \/ \E c \in Clients : PutGive(c)
    \/ \E x \in ArenaIds : PoolDrop(x)

SpecPool == InitPool /\ [][NextPool]_vars

\* ------------------------------------------------------------ properties
IsAlloc ==
    ret.op \in {"New", "AllocString", "allocBytes"} /\ ret.ptr.kind = "ptr"

Overlap(r1, r2) == r1.chunk = r2.chunk /\ r1.lo < r2.hi /\ r2.lo < r1.hi

\* C1: the ranges returned between two Resets are pairwise disjoint: no
\* two of them share a byte of the same chunk.
C1_SessionRangesDisjoint ==
    \A i, j \in 1..Len(live) : i < j => ~Overlap(live[i], live[j])

\* C2: every allocation with size > 0 returns exactly size bytes that start
\* at a multiple of align and end within the capacity of the chunk they lie
\* in, on the fast path and after growth.
C2_RangeAlignedInOneChunk ==
    IsAlloc =>
        /\ ret.ptr.chunk \in ChunkIdsOf(arena)
        /\ ret.ptr.start >= 0
        /\ ret.ptr.start % ret.align = 0
        /\ ret.ptr.start + ret.size <= CapOf(arena, ret.ptr.chunk)
        /\ live[Len(live)].hi - live[Len(live)].lo = ret.size
        /\ arena.curStart = ret.ptr.chunk
        /\ arena.offset = ret.ptr.start + ret.size

\* C2 witness: an aligned request that found the cursor misaligned and the
\* active chunk too small, and was served after growth.
C2_Witness ==
    /\ IsAlloc
    /\ ret.grows = 1
    /\ ret.align = 4
    /\ ret.before.offset % 4 # 0

\* C3: when a workload W is run, Reset keeps every chunk, and W is run
\* again, the chunk count after the second run is at most the chunk count at
\* the end of the first run.
C3_NoGrowthOnRepeat ==
    (phase = "done" /\ keptAll) => Len(arena.chunks) <= highWater

\* C4: after Reset the retained chunks other than the last one hold at most
\* maxRetain bytes together.
C4_RetainedWithinBudgetPlusOne ==
    ret.op = "Reset" =>
        SumCap(SubSeq(arena.chunks, 1, Len(arena.chunks) - 1)) <= arena.maxRetain

\* C4 witness: a Reset that dropped chunks and kept a total above maxRetain.
C4_Witness ==
    /\ ret.op = "Reset"
    /\ Len(arena.chunks) < Len(ret.before.chunks)
    /\ Len(arena.chunks) > 1
    /\ SumCap(arena.chunks) > arena.maxRetain

\* C5: on NewArena(1, 2), after n single-byte allocations the arena has n
\* chunks.
C5_OneChunkPerByte ==
    (ret.op = "New" /\ nalloc >= 1 /\ nalloc <= MaxBytes) =>
        Len(arena.chunks) = nalloc

\* C6 as stated: Reset leaves chunkIndex = 0 and offset = 0 with the cursor
\* at the start of chunks[0], and the first allocation after Reset is served
\* from offset 0 of the first chunk.
C6_FirstAllocAlwaysInFirstChunk ==
    /\ ret.op = "Reset" =>
           /\ arena.chunkIndex = 0
           /\ arena.offset = 0
           /\ arena.curStart = arena.chunks[1].id
           /\ arena.curEnd = arena.chunks[1].cap
    /\ (IsAlloc /\ ret.afterReset) =>
           /\ ret.ptr.chunk = arena.chunks[1].id
           /\ ret.ptr.start = 0

\* C6 amended: Reset leaves chunkIndex = 0 and offset = 0 with the cursor at
\* the start of chunks[0], and the first allocation after Reset is served
\* from offset 0 of the first chunk whenever its size is at most the
\* capacity of chunks[0].
C6_ResetRewindsCursor ==
    /\ ret.op = "Reset" =>
           /\ arena.chunkIndex = 0
           /\ arena.offset = 0
           /\ arena.curStart = arena.chunks[1].id
           /\ arena.curEnd = arena.chunks[1].cap
    /\ (IsAlloc /\ ret.afterReset /\ ret.size <= arena.chunks[1].cap) =>
           /\ ret.ptr.chunk = arena.chunks[1].id
           /\ ret.ptr.start = 0

\* C6 witness: a Reset called with the cursor inside a later chunk.
C6_Witness ==
    /\ ret.op = "Reset"
    /\ ret.before.chunkIndex > 0
    /\ ret.before.offset > 0
    /\ Len(arena.chunks) > 1

\* C7: the arena Get returns, new or recycled, has chunkIndex = 0 and
\* offset = 0 when it is returned.
C7_GetReturnsRewoundArena ==
    \A c \in Clients :
        pc[c] = "got" =>
            /\ held[c] # 0
            /\ arenas[held[c]].kind = "arena"
            /\ arenas[held[c]].chunkIndex = 0
            /\ arenas[held[c]].offset = 0

\* C7 witness: Get returns a recycled arena that a previous holder grew (a
\* new arena has one chunk).
C7_Witness ==
    \E c \in Clients :
        /\ pc[c] = "got"
        /\ Len(arenas[held[c]].chunks) > 1

Holders(x) == {c \in Clients : held[c] = x}

\* C8: no arena is held by two clients at once, and every arena is either
\* checked out (held by exactly one client) or idle, never both.
C8_ExclusiveOwnership ==
    /\ \A c1, c2 \in Clients :
           (c1 # c2 /\ held[c1] # 0) => held[c1] # held[c2]
    /\ \A x \in ArenaIds :
           arenas[x].kind = "arena" =>
               /\ (x \in idle) # (Holders(x) # {})
               /\ Cardinality(Holders(x)) <= 1
    /\ \A x \in idle : arenas[x].kind = "arena"

\* C8 witness: Get returns a recycled arena (one that was grown before) to
\* one client while another client is working in its own arena.
C8_Witness ==
    \E c1, c2 \in Clients :
        /\ c1 # c2
        /\ pc[c1] = "got"
        /\ Len(arenas[held[c1]].chunks) > 1
        /\ pc[c2] = "work"
        /\ held[c2] # 0

\* The retention policy: all chunks but the last hold at most maxRetain.
Retained(a) == SumCap(SubSeq(a.chunks, 1, Len(a.chunks) - 1)) <= a.maxRetain

\* C9: every idle arena has chunkIndex = 0, offset = 0 and satisfies the
\* retention policy, and Put(nil) changes neither the idle set nor any arena.
C9_PutResetsBeforeIdle ==
    /\ \A x \in idle :
           /\ arenas[x].chunkIndex = 0
           /\ arenas[x].offset = 0
           /\ Retained(arenas[x])
    /\ ret.op = "Put(nil)" => ret.same

\* C9 witness: Put made idle an arena whose holder had grown it past the
\* retention budget.
C9_Witness ==
    \E x \in idle :
        /\ Len(arenas[x].chunks) > 1
        /\ SumCap(arenas[x].chunks) > arenas[x].maxRetain

\* C10: NewArena and NewArenaPool panic and produce no object when
\* chunkSize <= 0; otherwise NewArena returns one chunk of capacity
\* chunkSize, chunkIndex = 0, offset = 0 and maxRetain equal to the argument,
\* or to chunkSize * 10 when the argument is 0 (arguments maxRetain >= 0).
C10_ConstructorContract ==
    /\ ret.op = "NewArena" =>
           IF cfg.size <= 0
           THEN ret.fault /\ arena = NilArena
           ELSE /\ ~ret.fault
                /\ arena.kind = "arena"
                /\ Len(arena.chunks) = 1
                /\ arena.chunks[1].cap = cfg.size
                /\ arena.chunkSize = cfg.size
                /\ arena.chunkIndex = 0
                /\ arena.offset = 0
                /\ cfg.maxRetained > 0 => arena.maxRetain = cfg.maxRetained
                /\ cfg.maxRetained = 0 => arena.maxRetain = cfg.size * 10
    /\ pool.kind # "nil" =>
           IF cfg.size <= 0
           THEN pool = Panic
           ELSE /\ pool.kind = "pool"
                /\ pool.chunkSize = cfg.size
                /\ cfg.maxRetained > 0 => pool.maxRetained = cfg.maxRetained
                /\ cfg.maxRetained = 0 => pool.maxRetained = cfg.size * 10

\* C10 witness: both constructors were called with chunkSize = 0 and
\* panicked.
C10_Witness ==
    /\ cfg.size = 0
    /\ ret.op = "NewArena"
    /\ ret.fault
    /\ pool = Panic

\* The prefix of s that ends at (and includes) the first chunk at which the
\* running sum of capacities, started at total, becomes strictly greater
\* than budget; all of s when the sum never does.
RECURSIVE RetainedPrefix(_, _, _)
RetainedPrefix(s, total, budget) ==
    IF s = <<>> THEN <<>>
    ELSE IF total + s[1].cap > budget THEN <<s[1]>>
    ELSE <<s[1]>> \o RetainedPrefix(Tail(s), total + s[1].cap, budget)

\* C15: the chunk list after Reset is a single fresh chunk of capacity
\* chunkSize when the list was empty or its first chunk was larger than
\* maxRetain; otherwise it is the prefix of the old list that ends at the
\* first chunk where the running sum of capacities exceeds maxRetain (the
\* whole list when it never does), with the identity, order and capacity of
\* every retained chunk unchanged.
C15_ResetChunkList ==
    ret.op = "Reset" =>
        LET b == ret.before
        IN IF Len(b.chunks) = 0 \/ b.chunks[1].cap > b.maxRetain
           THEN /\ Len(arena.chunks) = 1
                /\ arena.chunks[1].cap = b.chunkSize
                /\ arena.chunks[1].id \notin ChunkIdsOf(b)
           ELSE arena.chunks = RetainedPrefix(b.chunks, 0, b.maxRetain)

\* A Reset that dropped a proper, non-empty tail and kept more than one chunk.
C15_Witness ==
    /\ ret.op = "Reset"
    /\ ret.before.chunks[1].cap <= ret.before.maxRetain
    /\ Len(arena.chunks) > 1
    /\ Len(arena.chunks) < Len(ret.before.chunks)

\* 0-based indices of the chunks after the active one that can hold size bytes.
LaterFits(a, size) ==
    {j \in (a.chunkIndex + 1)..(Len(a.chunks) - 1) : a.chunks[j + 1].cap >= size}

\* C16: when the active chunk cannot satisfy a request and a later chunk of
\* the store has capacity for it, the request is served from offset 0 of
\* such a chunk and the chunk list is the one before the request.
C16_ReusesLaterChunk ==
    (IsAlloc /\ ret.grows >= 1 /\ LaterFits(ret.before, ret.size) # {}) =>
        /\ arena.chunks = ret.before.chunks
        /\ ret.ptr.start = 0
        /\ \E j \in LaterFits(ret.before, ret.size) :
               /\ ret.ptr.chunk = ret.before.chunks[j + 1].id
               /\ arena.chunkIndex = j

\* C17: a request that makes the chunk list longer appends exactly one
\* chunk, at the end, of capacity max(chunkSize, size) for the requested
\* size, and is served from offset 0.
C17_NewChunkSizedToRequest ==
    (IsAlloc /\ Len(arena.chunks) > Len(ret.before.chunks)) =>
        /\ Len(arena.chunks) = Len(ret.before.chunks) + 1
        /\ SubSeq(arena.chunks, 1, Len(ret.before.chunks)) = ret.before.chunks
        /\ arena.chunks[Len(arena.chunks)].cap
               = Max2(arena.chunkSize, ret.size)
        /\ ret.ptr.start = 0

\* C18: in every state of a constructed arena the offset is at most the
\* capacity of chunks[chunkIndex].
C18_OffsetWithinActiveChunk ==
    arena.kind = "arena" =>
        arena.offset <= arena.chunks[arena.chunkIndex + 1].cap

\* C19: an allocation of size > 0 returns a pointer after at most one
\* growAndAlloc call, and the call adds at most one chunk to the list.
C19_AtMostOneGrowth ==
    (ret.op \in {"New", "AllocString", "allocBytes"} /\ ret.size > 0) =>
        /\ ret.ptr.kind = "ptr"
        /\ ret.grows <= 1
        /\ Len(arena.chunks) <= Len(ret.before.chunks) + 1
        /\ ret.grows = 0 => arena.chunks = ret.before.chunks

\* An allocation that grew once and created a chunk while chunkIndex did
\* not name the last chunk of the list.
C19_Witness ==
    /\ IsAlloc
    /\ ret.grows = 1
    /\ Len(arena.chunks) = Len(ret.before.chunks) + 1
    /\ ret.before.chunkIndex + 1 < Len(ret.before.chunks)

\* C14: on a freshly constructed arena, when the first session grew the
\* store from 1 to 3 chunks whose total capacity is within maxRetain, the
\* Reset keeps all 3 chunks, and the chunk count is 3 in every state of the
\* second session that repeats the allocations.
C14_SecondSessionCreatesNoChunk ==
    /\ (/\ phase = "replay"
        /\ ret.op = "Reset"
        /\ Len(ret.before.chunks) = 3
        /\ SumCap(ret.before.chunks) <= ret.before.maxRetain)
       => arena.chunks = ret.before.chunks
    /\ (phase \in {"replay", "done"} /\ highWater = 3 /\ keptAll)
       => Len(arena.chunks) = 3

\* The second session has repeated a workload that grew the store to 3
\* chunks, and is now served from the third.
C14_Witness ==
    /\ phase = "done"
    /\ highWater = 3
    /\ keptAll
    /\ arena.chunkIndex = 2
    /\ Len(arena.chunks) = 3

\* Sizeof(T) * capacity does not fit the int type.
Overflows(T, capacity) == T[1] * capacity > MaxInt

\* C11: MakeSlice panics when length < 0, when capacity < length and when
\* Sizeof(T) * capacity overflows int, and the arena (chunk list,
\* chunkIndex, offset) is then what it was before the call.
C11_MakeSliceFaultsBeforeMutation ==
    (/\ ret.op = "MakeSlice"
     /\ \/ ret.length < 0
        \/ ret.capacity < ret.length
        \/ Overflows(ret.T, ret.capacity))
    => (ret.panic = "arg" /\ ret.same)

\* An overflowing request whose wrapped byte count is a small positive
\* number, made on an arena that has already served allocations.
C11_Witness ==
    /\ ret.op = "MakeSlice"
    /\ ret.length >= 0
    /\ ret.capacity >= ret.length
    /\ Overflows(ret.T, ret.capacity)
    /\ WrapInt(ret.T[1] * ret.capacity) > 0
    /\ ret.panic = "arg"
    /\ arena.chunkIndex > 0
    /\ arena.offset > 0

\* C20: in the allocAligned variant every allocation of size > 0 returns,
\* without a bounds panic, size bytes inside chunks[chunkIndex] that start
\* at a multiple of align.
C20_AlignedRangeInActiveChunk ==
    (/\ arena.kind = "aligned"
     /\ ret.op \in {"New", "AllocString", "MakeSlice"}
     /\ ret.size > 0)
    => /\ ret.ptr.kind = "ptr"
       /\ ret.ptr.chunk = arena.chunks[arena.chunkIndex + 1].id
       /\ ret.ptr.start >= 0
       /\ ret.ptr.start + ret.size <= arena.chunks[arena.chunkIndex + 1].cap
       /\ ret.ptr.start % ret.align = 0

\* C13: Append returns the old elements of slice followed by items.  When
\* len(slice) + len(items) <= cap(slice) the result is the same storage,
\* extended, and the arena is unchanged; otherwise the result is a new
\* sequence in the arena of capacity max(2 * cap(slice), len(slice) +
\* len(items)), and the original backing storage holds what it held.
C13_AppendExtendsOrReallocates ==
    ret.op = "Append" =>
        LET old == ret.slice
            needed == old.len + Len(ret.items)
        IN /\ ret.panic = "none"
           /\ Elements(mem, ret.res)
                  = SubSeq(ret.backing, 1, old.len) \o ret.items
           /\ needed <= old.cap =>
                  /\ ret.same
                  /\ ret.res = [old EXCEPT !.len = needed]
           /\ needed > old.cap =>
                  /\ ret.res.kind = "slice"
                  /\ ret.res.cap = Max2(2 * old.cap, needed)
                  /\ ret.res.chunk \in ChunkIdsA(arena)
                  /\ Elements(mem, [old EXCEPT !.len = old.cap]) = ret.backing

\* The last call asked for zero bytes.
ZeroRequest ==
    \/ ret.op \in {"New", "AllocString", "allocBytes"} /\ ret.size = 0
    \/ ret.op = "MakeSlice" /\ ret.capacity = 0 /\ ret.length = 0

\* The arena after the last call is the arena before it.
ArenaUnchanged ==
    IF "before" \in DOMAIN ret THEN arena = ret.before ELSE ret.same

\* C12: MakeSlice with capacity 0, AllocString of an empty string, New of
\* a zero-sized type and allocRaw with size 0 return an empty result and
\* leave the chunk list, chunkIndex and offset as they were.
C12_ZeroRequestLeavesArena ==
    ZeroRequest =>
        /\ ArenaUnchanged
        /\ ret.op = "New" => ret.ptr.kind = "zero"
        /\ ret.op = "AllocString" => ret.ptr.kind = "empty"
        /\ ret.op = "allocBytes" => ret.ptr = NilPtr
        /\ ret.op = "MakeSlice" => (ret.panic = "none" /\ ret.res.kind = "nil")

\* allocRaw is called with size 0 while the active chunk is full and a
\* Reset has left a second chunk in the list.
C12_Witness ==
    /\ arena.kind = "arena"
    /\ ret.op = "allocBytes"
    /\ ret.size = 0
    /\ arena.offset = arena.curEnd
    /\ arena.offset > 0
    /\ Len(arena.chunks) > 1

\* C21: in every state of a constructed arena the cached cursor describes
\* the active chunk: curEnd is the capacity of chunks[chunkIndex] and
\* curStart is the start of chunks[chunkIndex]; after a growth that created
\* a chunk, chunkIndex is the index of the created chunk.
C21_CursorDescribesActiveChunk ==
    arena.kind = "arena" =>
        /\ arena.curEnd = arena.chunks[arena.chunkIndex + 1].cap
        /\ arena.curStart = arena.chunks[arena.chunkIndex + 1].id
        /\ (IsAlloc /\ Len(arena.chunks) > Len(ret.before.chunks)) =>
               arena.chunkIndex + 1 = Len(arena.chunks)

\* C22: in every state of a constructed arena the chunk list is non-empty,
\* 0 <= chunkIndex < len(chunks), the first chunk has capacity chunkSize and
\* every chunk has capacity at least chunkSize; an allocation leaves the
\* chunks that existed before it in place, in the same order and with the
\* same capacities.
C22_ChunkListStructure ==
    arena.kind = "arena" =>
        /\ Len(arena.chunks) >= 1
        /\ 0 <= arena.chunkIndex
        /\ arena.chunkIndex < Len(arena.chunks)
        /\ arena.chunks[1].cap = arena.chunkSize
        /\ \A i \in 1..Len(arena.chunks) :
               arena.chunks[i].cap >= arena.chunkSize
        /\ ret.op \in {"New", "AllocString", "allocBytes"} =>
               /\ Len(arena.chunks) >= Len(ret.before.chunks)
               /\ SubSeq(arena.chunks, 1, Len(ret.before.chunks))
                      = ret.before.chunks

\* C22 witness: the first allocation after a Reset that kept several chunks
\* appended a chunk larger than chunkSize behind them.
C22_Witness ==
    /\ IsAlloc
    /\ ret.afterReset
    /\ Len(ret.before.chunks) >= 2
    /\ Len(arena.chunks) = Len(ret.before.chunks) + 1
    /\ arena.chunks[Len(arena.chunks)].cap > arena.chunkSize

====
